---- MODULE Spec2Model ----
(***************************************************************************)
(* Model of edtech_tracker.py: a Streamlit page script over one SQLite     *)
(* file.  Every browser session runs main() in its own script thread: one  *)
(* page run is init_db() followed by the view the session is routed to.    *)
(* Every run_query()/init_db() call opens its own connection and is one    *)
(* SQLite transaction, so the steps of different sessions interleave       *)
(* between two store calls and never inside one.                           *)
(*                                                                         *)
(* Columns no modelled statement reads (users.created_at,                  *)
(* progress.updated_at) are left out, and so are the reads that only       *)
(* draw a chart or a table (l.229, l.340, l.345) and the other selectboxes *)
(* of a page run, whose widget value equals the stored status.  Accented   *)
(* letters of the catalog's names are written without their accents.       *)
(***************************************************************************)
EXTENDS Integers, Sequences, FiniteSets, TLC

VARIABLES
    users,          \* table users, in rowid order       (init_db, l.76-82)
    progress,       \* table progress, in rowid order    (init_db, l.85-94)
    audit_logs,     \* table audit_logs, in rowid order  (init_db, l.97-104)
    clock,          \* the store's CURRENT_TIMESTAMP, in whole seconds
    session_state,  \* st.session_state['user'] of each session, or NoUser
    pc,             \* where each session's script thread stands
    loc,            \* the local variables of each session's page run
    open_conns      \* connections opened and not closed yet

vars == <<users, progress, audit_logs, clock, session_state, pc, loc, open_conns>>

----------------------------------------------------------------------------
(* Bounds of the model *)

\* audit rows the sessions may write after the initial state
MaxAudit == 2

\* the last second the store's clock reaches
MaxClock == 2

\* connections that may be left open before the runtime finalizes one
MaxOpenConns == 1

\* the browser sessions
Sessions == {"s1", "s2"}

\* what a session may type into the login and create-user forms
Usernames == {"admin", "etu"}

Passwords == {"admin123", "secret"}

\* the salts passlib may draw
Salts == {1, 2}

----------------------------------------------------------------------------
(* Constants of the program *)

\* LIMIT 5 of the recent activity query
RecentLimit == 5

DEFAULT_ADMIN_USER == "admin"

DEFAULT_ADMIN_PASS == "admin123"

\* the selectbox "Role" of the create-user form
Roles == {"student", "admin"}

STATUS_OPTS == <<"Non fait", "En cours", "Fait">>

components == <<"Cours", "TD", "TP">>

\* the keys of DEFAULT_SUBJECTS in the order the dict lists them
SubjectOrder == <<"Mathematiques", "Physique", "Informatique">>

DEFAULT_SUBJECTS ==
    [subj \in {"Mathematiques", "Physique", "Informatique"} |->
        CASE subj = "Mathematiques" ->
                <<"Algebre Lineaire", "Analyse Reelle", "Probabilites">>
          [] subj = "Physique" ->
                <<"Mecanique du Point", "Thermodynamique", "Electromagnetisme">>
          [] subj = "Informatique" ->
                <<"Python Intro", "Structures de Donnees", "Algorithmes">>]

Range(f) == {f[i] : i \in DOMAIN f}

RECURSIVE Flatten(_)
Flatten(seqs) ==
    IF seqs = <<>> THEN <<>> ELSE Head(seqs) \o Flatten(Tail(seqs))

\* the selectboxes of one chapter, in the order view_subjects draws them
ChapterKeys(subj, chap) ==
    [i \in DOMAIN components |->
        [subject |-> subj, chapter |-> chap, component |-> components[i]]]

\* the selectboxes of one subject
SubjectKeys(subj) ==
    Flatten([i \in DOMAIN DEFAULT_SUBJECTS[subj] |->
                ChapterKeys(subj, DEFAULT_SUBJECTS[subj][i])])

\* the (subject, chapter, component) triples in the order view_subjects
\* iterates over them
CatalogSeq == Flatten([i \in DOMAIN SubjectOrder |-> SubjectKeys(SubjectOrder[i])])

CatalogKeys == Range(CatalogSeq)

RECURSIVE SumSeq(_)
SumSeq(seq) == IF seq = <<>> THEN 0 ELSE Head(seq) + SumSeq(Tail(seq))

\* sum(len(chaps)*3 for chaps in DEFAULT_SUBJECTS.values())
total_ops ==
    SumSeq([i \in DOMAIN SubjectOrder |-> Len(DEFAULT_SUBJECTS[SubjectOrder[i]]) * 3])

\* the selectboxes the modelled users change: the two last ones of the page
EditedKeys ==
    {k \in CatalogKeys : /\ k.subject = "Informatique"
                         /\ k.chapter = "Algorithmes"
                         /\ k.component \in {"TD", "TP"}}

----------------------------------------------------------------------------
(* Values *)

\* None, where a user record is expected
NoUser == [id |-> 0, username |-> "", role |-> ""]

NoKey == [subject |-> "", chapter |-> "", component |-> ""]

\* the locals of a page run that has not assigned them
NoLocals ==
    [key |-> NoKey, new_status |-> "", exists |-> <<>>,
     new_user |-> "", new_pass |-> "", role |-> "",
     completed_tasks |-> 0, logs |-> <<>>]

\* the text of an audit row: "{subj} > {chap} > {comp} : {new_status}" or
\* "Created user {new_user} ({role})", kept as its parts
ProgressDetails(key, status) ==
    [key |-> key, status |-> status, new_user |-> "", role |-> ""]

UserDetails(new_user, role) ==
    [key |-> NoKey, status |-> "", new_user |-> new_user, role |-> role]

\* a page run has ended and the session waits for the next interaction,
\* with or without an st.error message on the page
Resting == {"idle", "login_error", "create_error"}

----------------------------------------------------------------------------
(* passlib.hash.pbkdf2_sha256 *)

PwCode(password) ==
    CASE password = "admin123" -> 1
      [] password = "secret" -> 2
      [] OTHER -> 3

\* the digest of a password under a salt
Pbkdf2(password, salt) == (PwCode(password) * 7 + salt * 13) % 97

\* pbkdf2_sha256.hash(password), the salt drawn by the library
PwHash(password, salt) == [salt |-> salt, digest |-> Pbkdf2(password, salt)]

\* pbkdf2_sha256.verify(password, hash)
PwVerify(password, hash) == Pbkdf2(password, hash.salt) = hash.digest

----------------------------------------------------------------------------
(* The statements run_query executes *)

\* SELECT id, username, password, role FROM users WHERE username = ?
UsersByName(username) == SelectSeq(users, LAMBDA r : r.username = username)

\* mutant: the username column carries no UNIQUE constraint
UniqueViolation_None(username) == FALSE

\* username TEXT UNIQUE: an INSERT of a username the table holds raises
\* IntegrityError
UniqueViolation(username) == UsersByName(username) # <<>>

\* INSERT INTO users (username, password, role): the row an insert adds
NewUserRow(username, hash, role) ==
    [id |-> Len(users) + 1, username |-> username, password |-> hash, role |-> role]

\* SELECT ... FROM progress WHERE user_id=? AND subject=? AND chapter_name=? AND component=?
ProgressRows(uid, key) ==
    SelectSeq(progress, LAMBDA r : r.user_id = uid /\ r.key = key)

\* INSERT INTO progress (user_id, subject, chapter_name, component, status)
InsertProgress(uid, key, status) ==
    Append(progress, [id |-> Len(progress) + 1, user_id |-> uid, key |-> key,
                      status |-> status])

\* UPDATE progress SET status=? WHERE id=?
UpdateProgress(id, status) ==
    [i \in DOMAIN progress |->
        IF progress[i].id = id THEN [progress[i] EXCEPT !.status = status]
        ELSE progress[i]]

\* SELECT count(*) FROM progress WHERE user_id = ? AND status = 'Fait'
CountFait(uid) ==
    Len(SelectSeq(progress, LAMBDA r : r.user_id = uid /\ r.status = "Fait"))

\* INSERT INTO audit_logs (user_id, action, details), timestamp by the store
log_audit(uid, action, details) ==
    Append(audit_logs, [id |-> Len(audit_logs) + 1, user_id |-> uid,
                        action |-> action, details |-> details,
                        timestamp |-> clock])

\* audit rows written after the initial state, whose rows are stamped 0
AuditWritten == Len(SelectSeq(audit_logs, LAMBDA r : r.timestamp > 0))

\* audit rows the running page runs still have to write
AuditPending ==
    Cardinality({s \in Sessions : pc[s] \in {"exists", "write", "audit", "create_audit"}})

AuditRoom == AuditWritten + AuditPending < MaxAudit

----------------------------------------------------------------------------
(* login_user and create_user *)

\* mutant: the password is not verified against the stored hash
login_user_NoVerify(username, password) ==
    LET user == UsersByName(username)
    IN  IF user # <<>>
        THEN [id |-> user[1].id, username |-> user[1].username, role |-> user[1].role]
        ELSE NoUser

\* login_user (l.139-145)
login_user(username, password) ==
    LET user == UsersByName(username)
    IN  IF user # <<>> /\ PwVerify(password, user[1].password)
        THEN [id |-> user[1].id, username |-> user[1].username, role |-> user[1].role]
        ELSE NoUser

\* mutant: the role of the form is dropped and the default "student" stored
create_user_DefaultRole(username, password, role, salt) ==
    IF UniqueViolation(username)
    THEN [ok |-> FALSE, users |-> users, unclosed |-> 1]
    ELSE [ok |-> TRUE,
          users |-> Append(users, NewUserRow(username, PwHash(password, salt), "student")),
          unclosed |-> 0]

\* create_user (l.147-154): the row is inserted, or the insert raises
\* IntegrityError inside run_query before conn.close() and False is returned
create_user(username, password, role, salt) ==
    IF UniqueViolation(username)
    THEN [ok |-> FALSE, users |-> users, unclosed |-> 1]
    ELSE [ok |-> TRUE,
          users |-> Append(users, NewUserRow(username, PwHash(password, salt), role)),
          unclosed |-> 0]

----------------------------------------------------------------------------
(* The store and the runtime *)

\* the store's clock advances by a second
Tick ==
    /\ clock < MaxClock
    /\ clock' = clock + 1
    /\ UNCHANGED <<users, progress, audit_logs, session_state, pc, loc, open_conns>>

\* the runtime finalizes a connection object nobody closed
Finalize ==
    /\ open_conns > 0
    /\ open_conns' = open_conns - 1
    /\ UNCHANGED <<users, progress, audit_logs, clock, session_state, pc, loc>>

----------------------------------------------------------------------------
(* main and init_db *)

\* main() starts a page run and init_db finds the users table filled
\* (l.357, l.72-108, l.114-115): nothing is written and the run goes on to
\* its view.  The table never empties again, so this read gives the same
\* answer wherever it falls before the view's first store call, and every
\* view action below starts with it.
Routed(s) ==
    /\ pc[s] \in Resting
    /\ Len(users) # 0

\* mutant: the seeding is gated on nothing
InitDbCount_NoGate(s) ==
    /\ pc[s] \in Resting
    /\ pc' = [pc EXCEPT ![s] = "seed"]
    /\ UNCHANGED <<users, progress, audit_logs, clock, session_state, loc, open_conns>>

\* main() starts a page run and init_db finds the users table empty:
\* CREATE TABLE IF NOT EXISTS and SELECT count(*) FROM users (l.72-108)
InitDbCount(s) ==
    /\ pc[s] \in Resting
    /\ Len(users) = 0
    /\ pc' = [pc EXCEPT ![s] = "seed"]
    /\ UNCHANGED <<users, progress, audit_logs, clock, session_state, loc, open_conns>>

\* init_db: the INSERT of the default admin, commit and close (l.109-115),
\* after which the login form is drawn and the run ends; a username the
\* table holds by now raises IntegrityError out of main() before conn.close()
InitDbSeed(s) ==
    /\ pc[s] = "seed"
    /\ \E salt \in Salts :
        IF UniqueViolation(DEFAULT_ADMIN_USER)
        THEN /\ open_conns < MaxOpenConns
             /\ open_conns' = open_conns + 1
             /\ UNCHANGED users
        ELSE /\ users' = Append(users, NewUserRow(DEFAULT_ADMIN_USER,
                                    PwHash(DEFAULT_ADMIN_PASS, salt), "admin"))
             /\ UNCHANGED open_conns
    /\ pc' = [pc EXCEPT ![s] = "idle"]
    /\ UNCHANGED <<progress, audit_logs, clock, session_state, loc>>

\* main: the sidebar button "Se deconnecter" (l.389-391)
Logout(s) ==
    /\ Routed(s)
    /\ session_state[s] # NoUser
    /\ session_state' = [session_state EXCEPT ![s] = NoUser]
    /\ pc' = [pc EXCEPT ![s] = "idle"]
    /\ UNCHANGED <<users, progress, audit_logs, clock, loc, open_conns>>

----------------------------------------------------------------------------
(* view_login *)

\* the button "Se connecter" (l.188-196)
view_login(s, username, password) ==
    /\ Routed(s)
    /\ session_state[s] = NoUser
    /\ LET user == login_user(username, password)
       IN  IF user # NoUser
           THEN /\ session_state' = [session_state EXCEPT ![s] = user]
                /\ pc' = [pc EXCEPT ![s] = "idle"]
           ELSE /\ pc' = [pc EXCEPT ![s] = "login_error"]
                /\ UNCHANGED session_state
    /\ UNCHANGED <<users, progress, audit_logs, clock, loc, open_conns>>

----------------------------------------------------------------------------
(* view_admin *)

\* the form "create_user" is submitted (l.331-336)
view_admin_submit(s, new_user, new_pass, role) ==
    /\ Routed(s)
    /\ session_state[s].role = "admin"
    /\ \E salt \in Salts :
        LET res == create_user(new_user, new_pass, role, salt)
        IN  IF res.ok
            THEN /\ AuditRoom
                 /\ users' = res.users
                 /\ pc' = [pc EXCEPT ![s] = "create_audit"]
                 /\ loc' = [loc EXCEPT ![s].new_user = new_user,
                                       ![s].new_pass = new_pass,
                                       ![s].role = role]
                 /\ UNCHANGED open_conns
            ELSE /\ open_conns < MaxOpenConns
                 /\ open_conns' = open_conns + res.unclosed
                 /\ pc' = [pc EXCEPT ![s] = "create_error"]
                 /\ UNCHANGED <<users, loc>>
    /\ UNCHANGED <<progress, audit_logs, clock, session_state>>

\* log_audit(..., "CREATE_USER", ...) after a created user (l.334)
view_admin_audit(s) ==
    /\ pc[s] = "create_audit"
    /\ audit_logs' = log_audit(session_state[s].id, "CREATE_USER",
                               UserDetails(loc[s].new_user, loc[s].role))
    /\ pc' = [pc EXCEPT ![s] = "idle"]
    /\ loc' = [loc EXCEPT ![s] = NoLocals]
    /\ UNCHANGED <<users, progress, clock, session_state, open_conns>>

----------------------------------------------------------------------------
(* view_subjects *)

\* res[0][0] if res else "Non fait" (l.279)
CurrentStatus(uid, key) ==
    LET res == ProgressRows(uid, key)
    IN  IF res # <<>> THEN res[1].status ELSE "Non fait"

\* mutant: the write path is entered without comparing the two statuses
view_subjects_fetch_NoCompare(s, key, new_status) ==
    /\ Routed(s)
    /\ session_state[s] # NoUser
    /\ AuditRoom
    /\ pc' = [pc EXCEPT ![s] = "exists"]
    /\ loc' = [loc EXCEPT ![s].key = key, ![s].new_status = new_status]
    /\ UNCHANGED <<users, progress, audit_logs, clock, session_state, open_conns>>

\* the status of one selectbox is fetched and compared with the value the
\* widget returns (l.275-291); an unchanged one ends the run with no write
view_subjects_fetch(s, key, new_status) ==
    /\ Routed(s)
    /\ session_state[s] # NoUser
    /\ IF new_status # CurrentStatus(session_state[s].id, key)
       THEN /\ AuditRoom
            /\ pc' = [pc EXCEPT ![s] = "exists"]
            /\ loc' = [loc EXCEPT ![s].key = key, ![s].new_status = new_status]
       ELSE /\ pc' = [pc EXCEPT ![s] = "idle"]
            /\ UNCHANGED loc
    /\ UNCHANGED <<users, progress, audit_logs, clock, session_state, open_conns>>

\* SELECT id FROM progress WHERE ... (l.294-297)
view_subjects_exists(s) ==
    /\ pc[s] = "exists"
    /\ LET rows == ProgressRows(session_state[s].id, loc[s].key)
       IN  loc' = [loc EXCEPT ![s].exists = [i \in DOMAIN rows |-> rows[i].id]]
    /\ pc' = [pc EXCEPT ![s] = "write"]
    /\ UNCHANGED <<users, progress, audit_logs, clock, session_state, open_conns>>

\* mutant: the existence check is ignored and a row is always inserted
view_subjects_upsert_InsertOnly(s) ==
    /\ pc[s] = "write"
    /\ progress' = InsertProgress(session_state[s].id, loc[s].key, loc[s].new_status)
    /\ pc' = [pc EXCEPT ![s] = "audit"]
    /\ UNCHANGED <<users, audit_logs, clock, session_state, loc, open_conns>>

\* UPDATE the row found, or INSERT one (l.298-307)
view_subjects_upsert(s) ==
    /\ pc[s] = "write"
    /\ IF loc[s].exists # <<>>
       THEN progress' = UpdateProgress(loc[s].exists[1], loc[s].new_status)
       ELSE progress' = InsertProgress(session_state[s].id, loc[s].key, loc[s].new_status)
    /\ pc' = [pc EXCEPT ![s] = "audit"]
    /\ UNCHANGED <<users, audit_logs, clock, session_state, loc, open_conns>>

\* mutant: the run ends without its audit row
view_subjects_audit_NoLog(s) ==
    /\ pc[s] = "audit"
    /\ pc' = [pc EXCEPT ![s] = "idle"]
    /\ loc' = [loc EXCEPT ![s] = NoLocals]
    /\ UNCHANGED <<users, progress, audit_logs, clock, session_state, open_conns>>

\* log_audit(..., "UPDATE_PROGRESS", ...) and st.rerun (l.310-313)
view_subjects_audit(s) ==
    /\ pc[s] = "audit"
    /\ audit_logs' = log_audit(session_state[s].id, "UPDATE_PROGRESS",
                               ProgressDetails(loc[s].key, loc[s].new_status))
    /\ pc' = [pc EXCEPT ![s] = "idle"]
    /\ loc' = [loc EXCEPT ![s] = NoLocals]
    /\ UNCHANGED <<users, progress, clock, session_state, open_conns>>

----------------------------------------------------------------------------
(* view_dashboard *)

\* the audit rows of a user, in rowid order
UserLogs(uid) == SelectSeq(audit_logs, LAMBDA r : r.user_id = uid)

\* ORDER BY timestamp DESC LIMIT n over the rows numbered in left: every
\* answer SQL allows, the order among equal timestamps being unspecified
RECURSIVE OrderByTimestampDesc(_, _, _)
OrderByTimestampDesc(rows, left, n) ==
    IF n = 0 \/ left = {} THEN {<<>>}
    ELSE LET newest == {i \in left : \A j \in left :
                                        rows[j].timestamp <= rows[i].timestamp}
         IN  UNION {{<<rows[i]>> \o rest :
                        rest \in OrderByTimestampDesc(rows, left \ {i}, n - 1)} :
                    i \in newest}

\* SELECT ... FROM audit_logs WHERE user_id = ? ORDER BY timestamp DESC LIMIT 5
RecentLogs(uid) ==
    OrderByTimestampDesc(UserLogs(uid), DOMAIN UserLogs(uid), RecentLimit)

\* (completed_tasks / total_ops) * 100 if total_ops > 0 else 0, as the
\* numerator and the denominator of the exact quotient
global_rate(completed_tasks) ==
    IF total_ops > 0 THEN <<completed_tasks * 100, total_ops>> ELSE <<0, 1>>

\* the KPI query (l.210-215)
view_dashboard_kpi(s) ==
    /\ Routed(s)
    /\ session_state[s] # NoUser
    /\ loc' = [loc EXCEPT ![s].completed_tasks = CountFait(session_state[s].id)]
    /\ pc' = [pc EXCEPT ![s] = "dash"]
    /\ UNCHANGED <<users, progress, audit_logs, clock, session_state, open_conns>>

\* the recent activity query (l.247)
view_dashboard_logs(s) ==
    /\ pc[s] = "dash"
    /\ \E logs \in RecentLogs(session_state[s].id) :
            loc' = [loc EXCEPT ![s].logs = logs]
    /\ pc' = [pc EXCEPT ![s] = "shown"]
    /\ UNCHANGED <<users, progress, audit_logs, clock, session_state, open_conns>>

\* the rows are written to the page and the run ends (l.248-252)
view_dashboard_end(s) ==
    /\ pc[s] = "shown"
    /\ loc' = [loc EXCEPT ![s] = NoLocals]
    /\ pc' = [pc EXCEPT ![s] = "idle"]
    /\ UNCHANGED <<users, progress, audit_logs, clock, session_state, open_conns>>

----------------------------------------------------------------------------
(* Initial states *)

\* a fresh store: edtech.db does not exist, no browser session is logged in
Init ==
    /\ users = <<>>
    /\ progress = <<>>
    /\ audit_logs = <<>>
    /\ clock = 1
    /\ session_state = [s \in Sessions |-> NoUser]
    /\ pc = [s \in Sessions |-> "idle"]
    /\ loc = [s \in Sessions |-> NoLocals]
    /\ open_conns = 0

\* the users table after init_db seeded the admin and the admin created the
\* student "etu"
SeededUsers ==
    <<[id |-> 1, username |-> DEFAULT_ADMIN_USER,
       password |-> PwHash(DEFAULT_ADMIN_PASS, 1), role |-> "admin"],
      [id |-> 2, username |-> "etu",
       password |-> PwHash("secret", 2), role |-> "student"]>>

\* the audit row of that creation, written before the model's clock starts
SeededAudit ==
    <<[id |-> 1, user_id |-> 1, action |-> "CREATE_USER",
       details |-> UserDetails("etu", "student"), timestamp |-> 0]>>

\* the store after the bootstrap and one created student, every browser
\* session logged in as one of the two users
InitLoggedIn ==
    /\ users = SeededUsers
    /\ progress = <<>>
    /\ audit_logs = SeededAudit
    /\ clock = 1
    /\ session_state \in [Sessions -> {login_user(DEFAULT_ADMIN_USER, DEFAULT_ADMIN_PASS),
                                       login_user("etu", "secret")}]
    /\ pc = [s \in Sessions |-> "idle"]
    /\ loc = [s \in Sessions |-> NoLocals]
    /\ open_conns = 0

\* the first n selectboxes of the page, each set to "Fait" once by the admin
FaitRows(n) ==
    [i \in 1..n |-> [id |-> i, user_id |-> 1, key |-> CatalogSeq[i], status |-> "Fait"]]

\* the audit rows of those changes, a second apart, the last one at second 0
FaitAudit(n) ==
    [i \in 1..n |-> [id |-> i + 1, user_id |-> 1, action |-> "UPDATE_PROGRESS",
                     details |-> ProgressDetails(CatalogSeq[i], "Fait"),
                     timestamp |-> i - n]]

\* the same store after the admin set every selectbox but the last one of
\* the page to "Fait", one page run after the other
InitAlmostDone ==
    /\ users = SeededUsers
    /\ progress = FaitRows(Len(CatalogSeq) - 1)
    /\ audit_logs = [SeededAudit EXCEPT ![1].timestamp = 0 - Len(CatalogSeq)]
                        \o FaitAudit(Len(CatalogSeq) - 1)
    /\ clock = 1
    /\ session_state \in [Sessions -> {login_user(DEFAULT_ADMIN_USER, DEFAULT_ADMIN_PASS),
                                       login_user("etu", "secret")}]
    /\ pc = [s \in Sessions |-> "idle"]
    /\ loc = [s \in Sessions |-> NoLocals]
    /\ open_conns = 0

----------------------------------------------------------------------------
(* Specifications *)

\* the page runs around the users table
AuthStep(s) ==
    \/ InitDbCount(s)
    \/ InitDbSeed(s)
    \/ \E u \in Usernames, p \in Passwords : view_login(s, u, p)
    \/ Logout(s)
    \/ \E u \in Usernames, p \in Passwords, r \in Roles : view_admin_submit(s, u, p, r)
    \/ view_admin_audit(s)

\* the page runs of view_subjects
ProgressStep(s) ==
    \/ \E k \in EditedKeys, st \in Range(STATUS_OPTS) : view_subjects_fetch(s, k, st)
    \/ view_subjects_exists(s)
    \/ view_subjects_upsert(s)
    \/ view_subjects_audit(s)

\* the page runs of view_dashboard
DashboardStep(s) ==
    \/ view_dashboard_kpi(s)
    \/ view_dashboard_logs(s)
    \/ view_dashboard_end(s)

\* the whole application on a fresh store
Next ==
    \/ Tick
    \/ Finalize
    \/ \E s \in Sessions : AuthStep(s)
    \/ \E s \in Sessions : ProgressStep(s)
    \/ \E s \in Sessions : DashboardStep(s)

Spec == Init /\ [][Next]_vars

\* bootstrap, login and user management on a fresh store
NextAuth ==
    \/ Tick
    \/ Finalize
    \/ \E s \in Sessions : AuthStep(s)

SpecAuth == Init /\ [][NextAuth]_vars

\* logged-in sessions editing their progress concurrently
NextProgress ==
    \/ Tick
    \/ \E s \in Sessions : ProgressStep(s)

SpecProgress == InitLoggedIn /\ [][NextProgress]_vars

\* the same sessions, one page run at a time
Alone(s) == \A t \in Sessions \ {s} : pc[t] \in Resting

NextSeq ==
    \/ Tick
    \/ \E s \in Sessions, k \in EditedKeys, st \in Range(STATUS_OPTS) :
            Alone(s) /\ view_subjects_fetch(s, k, st)
    \/ \E s \in Sessions : Alone(s) /\ view_subjects_exists(s)
    \/ \E s \in Sessions : Alone(s) /\ view_subjects_upsert(s)
    \/ \E s \in Sessions : Alone(s) /\ view_subjects_audit(s)

SpecSeq == InitLoggedIn /\ [][NextSeq]_vars

\* sessions editing and reading the dashboard of an almost completed catalog
NextDone ==
    \/ Tick
    \/ \E s \in Sessions : ProgressStep(s)
    \/ \E s \in Sessions : DashboardStep(s)

SpecDone == InitAlmostDone /\ [][NextDone]_vars
----------------------------------------------------------------------------
(* Claims about view_subjects *)

\* the ids the users table holds
UserIds == {users[i].id : i \in DOMAIN users}

\* the audit rows that record a status written for (uid, key), oldest first
StatusLogs(uid, key) ==
    SelectSeq(audit_logs, LAMBDA r : /\ r.user_id = uid
                                     /\ r.action = "UPDATE_PROGRESS"
                                     /\ r.details.key = key)

\* the sessions that wrote a status for (uid, key) and have not logged it yet
Unlogged(uid, key) ==
    {s \in Sessions : pc[s] = "audit" /\ session_state[s].id = uid /\ loc[s].key = key}

\* the last status a page run wrote for (uid, key), "" when none did
LastSet(uid, key) ==
    IF Unlogged(uid, key) # {}
    THEN loc[CHOOSE s \in Unlogged(uid, key) : TRUE].new_status
    ELSE IF StatusLogs(uid, key) # <<>>
         THEN StatusLogs(uid, key)[Len(StatusLogs(uid, key))].details.status
         ELSE ""

\* C1: when the page runs execute one at a time, the progress table holds at
\* most one row per (user, subject, chapter, component), a row exists as soon
\* as a status was set for the key, and its status is the last one set
C1_OneRowLastStatus ==
    \A uid \in UserIds, key \in CatalogKeys :
        LET rows == ProgressRows(uid, key)
        IN  /\ Len(rows) <= 1
            /\ rows # <<>> => rows[1].status = LastSet(uid, key)
            /\ LastSet(uid, key) # "" => rows # <<>>

\* C1 witness: a key was set twice (insert, then update) and holds one row
C1_Witness ==
    \E uid \in UserIds, key \in EditedKeys :
        /\ Len(StatusLogs(uid, key)) = 2
        /\ Len(ProgressRows(uid, key)) = 1
        /\ \A s \in Sessions : pc[s] \in Resting

\* C5: a page run enters the write path only with a status that differs from
\* the stored one; it then writes the progress table once and appends exactly
\* one audit row with the user's id, UPDATE_PROGRESS and the triple and the
\* new status; no other step writes the progress or the audit table
C5_AuditPerChange ==
    [][/\ \A s \in Sessions :
            /\ (pc[s] \in Resting /\ pc'[s] = "exists")
                    => /\ loc'[s].new_status
                            # CurrentStatus(session_state[s].id, loc'[s].key)
                       /\ UNCHANGED <<progress, audit_logs>>
            /\ (pc[s] = "exists" /\ pc'[s] # "exists")
                    => pc'[s] = "write" /\ UNCHANGED <<progress, audit_logs>>
            /\ (pc[s] = "write" /\ pc'[s] # "write")
                    => pc'[s] = "audit" /\ UNCHANGED audit_logs
            /\ (pc[s] = "audit" /\ pc'[s] # "audit")
                    => /\ pc'[s] = "idle"
                       /\ Len(audit_logs') = Len(audit_logs) + 1
                       /\ SubSeq(audit_logs', 1, Len(audit_logs)) = audit_logs
                       /\ LET row == audit_logs'[Len(audit_logs')]
                          IN  /\ row.user_id = session_state[s].id
                              /\ row.action = "UPDATE_PROGRESS"
                              /\ row.details
                                    = ProgressDetails(loc[s].key, loc[s].new_status)
       /\ audit_logs' # audit_logs
            => \E s \in Sessions : pc[s] = "audit" /\ pc'[s] = "idle"
       /\ progress' # progress
            => \E s \in Sessions : pc[s] = "write" /\ pc'[s] = "audit"]_vars

\* C5 witness: a changing call has completed: one progress row, one audit row
C5_Witness ==
    /\ \E uid \in UserIds, key \in EditedKeys :
            /\ Len(StatusLogs(uid, key)) = 1
            /\ Len(ProgressRows(uid, key)) = 1
    /\ \A s \in Sessions : pc[s] \in Resting

\* the statuses page runs wrote for (uid, key), logged or about to be
StatusesSet(uid, key) ==
    {StatusLogs(uid, key)[i].details.status : i \in DOMAIN StatusLogs(uid, key)}
        \cup {loc[s].new_status : s \in Unlogged(uid, key)}

\* C10: whatever the interleaving, a key never holds more rows than there are
\* sessions, every row holds a status some page run wrote for the key (the
\* later write wins), and every row written has its audit row, written or
\* about to be: the race duplicates or overwrites rows, it loses no audit
\* entry
C10_RaceKeepsAudit ==
    \A uid \in UserIds, key \in EditedKeys :
        LET rows == ProgressRows(uid, key)
        IN  /\ Len(rows) <= Cardinality(Sessions)
            /\ \A i \in DOMAIN rows : rows[i].status \in StatusesSet(uid, key)
            /\ Len(rows) <= Len(StatusLogs(uid, key)) + Cardinality(Unlogged(uid, key))

\* C10 witness: two sessions both saw no row and both inserted, each its own
\* status: two rows for one key, an audit row of each session, and the status
\* logged last is not the one the page reads back
C10_Witness ==
    \E uid \in UserIds, key \in EditedKeys :
        /\ Len(ProgressRows(uid, key)) = 2
        /\ ProgressRows(uid, key)[1].status # ProgressRows(uid, key)[2].status
        /\ Len(StatusLogs(uid, key)) = 2
        /\ CurrentStatus(uid, key) # StatusLogs(uid, key)[2].details.status
        /\ \A s \in Sessions : pc[s] \in Resting
----------------------------------------------------------------------------
(* Claims about the users table *)

\* C2: no two users rows share a username; a users row never changes; a
\* create_user on a username the table holds returns False, shows the error
\* and leaves the table as it is
C2_UniqueUsername ==
    /\ [](\A i, j \in DOMAIN users : users[i].username = users[j].username => i = j)
    /\ [][/\ \A i \in DOMAIN users : i \in DOMAIN users' /\ users'[i] = users[i]
          /\ \A s \in Sessions, u \in Usernames, p \in Passwords, r \in Roles :
                (view_admin_submit(s, u, p, r) /\ UsersByName(u) # <<>>)
                    => /\ \A salt \in Salts : ~create_user(u, p, r, salt).ok
                       /\ users' = users
                       /\ pc'[s] = "create_error"]_vars

\* C2 witness: a create_user was refused while the table held the username
C2_Witness ==
    \E s \in Sessions :
        /\ pc[s] = "create_error"
        /\ Len(users) = 2
        /\ open_conns > 0

\* C3: right after create_user(username, password, role) succeeded,
\* login_user(username, password) returns that username and that role
C3_CreateThenLogin ==
    \A a \in Sessions :
        pc[a] = "create_audit"
            => LET user == login_user(loc[a].new_user, loc[a].new_pass)
               IN  /\ user # NoUser
                   /\ user.username = loc[a].new_user
                   /\ user.role = loc[a].role
                   /\ user.id \in UserIds

\* C3 witness: a session has just created an admin
C3_Witness ==
    \E a \in Sessions : pc[a] = "create_audit" /\ loc[a].role = "admin"

\* C4: login_user returns None alike for a username with no row and for a
\* wrong password of an existing user (the seeded admin, a user just
\* created); a refused login changes no table and no session, and a session
\* gets a user only as the record login_user returned
C4_AuthFailure ==
    /\ [](\A u \in Usernames, p \in Passwords :
            /\ UsersByName(u) = <<>> => login_user(u, p) = NoUser
            /\ (u = DEFAULT_ADMIN_USER /\ p # DEFAULT_ADMIN_PASS)
                    => login_user(u, p) = NoUser
            /\ \A a \in Sessions :
                    (pc[a] = "create_audit" /\ u = loc[a].new_user /\ p # loc[a].new_pass)
                        => login_user(u, p) = NoUser)
    /\ [][\A s \in Sessions :
            /\ (pc[s] # "login_error" /\ pc'[s] = "login_error")
                    => UNCHANGED <<users, progress, audit_logs, session_state>>
            /\ (session_state'[s] # session_state[s] /\ session_state'[s] # NoUser)
                    => /\ session_state[s] = NoUser
                       /\ \E u \in Usernames, p \in Passwords :
                                session_state'[s] = login_user(u, p)
                       /\ UNCHANGED <<users, progress, audit_logs>>]_vars

\* C4 witness: a login was refused for a user the table holds, another one
\* went through
C4_Witness ==
    \E s, t \in Sessions :
        /\ pc[s] = "login_error"
        /\ session_state[s] = NoUser
        /\ session_state[t] # NoUser
        /\ Len(users) = 2

\* the row init_db seeds
IsDefaultAdmin(row) ==
    /\ row.username = DEFAULT_ADMIN_USER
    /\ row.role = "admin"
    /\ PwVerify(DEFAULT_ADMIN_PASS, row.password)

\* C6: init_db goes on to the INSERT only when it counted no users row; its
\* INSERT adds the default admin to an empty table and nothing to a filled
\* one; once the table is filled it holds exactly one row named "admin", the
\* seeded one
C6_SeedWhenEmpty ==
    /\ [](Len(users) > 0
            => /\ Len(UsersByName(DEFAULT_ADMIN_USER)) = 1
               /\ IsDefaultAdmin(users[1]))
    /\ [][\A s \in Sessions :
            /\ (pc[s] # "seed" /\ pc'[s] = "seed") => Len(users) = 0
            /\ (pc[s] = "seed" /\ pc'[s] # "seed")
                    => IF Len(users) = 0
                       THEN Len(users') = 1 /\ IsDefaultAdmin(users'[1])
                       ELSE users' = users]_vars

\* C6 witness: two init_db ran into each other on the fresh store (one
\* INSERT was refused) and a user was created since
C6_Witness ==
    /\ Len(users) = 2
    /\ Len(UsersByName(DEFAULT_ADMIN_USER)) = 1
    /\ open_conns > 0
    /\ \A s \in Sessions : pc[s] = "idle"

\* C8, as claimed: no connection is left open by a store call that returned
\* or raised
C8_ConnectionsReleased == open_conns = 0

----------------------------------------------------------------------------
(* Claims about view_dashboard *)

\* C7, as claimed: the completion rate a dashboard shows, and the rate of
\* every user, is at most 100: no more "Fait" rows than catalog slots
C7_RateInRange ==
    /\ \A uid \in UserIds :
            /\ CountFait(uid) <= total_ops
            /\ global_rate(CountFait(uid))[1] <= 100 * global_rate(CountFait(uid))[2]
    /\ \A s \in Sessions :
            pc[s] \in {"dash", "shown"}
                => /\ 0 <= global_rate(loc[s].completed_tasks)[1]
                   /\ global_rate(loc[s].completed_tasks)[1]
                        <= 100 * global_rate(loc[s].completed_tasks)[2]

\* C9, as claimed: the recent activity a dashboard shows is at most 5 rows of
\* the user, no older than any row left out, in strictly descending
\* timestamp order
C9_StrictlyDescending ==
    \A s \in Sessions :
        pc[s] = "shown"
            => LET logs == loc[s].logs
               IN  /\ Len(logs) <= RecentLimit
                   /\ \A i \in DOMAIN logs : logs[i].user_id = session_state[s].id
                   /\ \A i, j \in DOMAIN logs :
                            i < j => logs[i].timestamp > logs[j].timestamp
====
